---------------------------- MODULE Spec2Model ----------------------------
(***************************************************************************)
(* A model of the ClassificationList parser (ClassificationList.cpp/.h),   *)
(* of the confusion-matrix accumulation and output in                      *)
(* PatchExtractor::WriteSort and of the batch loop PatchExtractor::Sort    *)
(* (CompareList.cpp).                                                      *)
(*                                                                         *)
(* A stream is a sequence of one-character strings.  The state of a        *)
(* std::istream is the pair (pos, good): pos is the 1-based index of the   *)
(* next character to extract, good is stream.good() (neither eofbit nor    *)
(* failbit set).                                                           *)
(***************************************************************************)
EXTENDS Integers, Sequences, FiniteSets, TLC

VARIABLES
    stream,           \* the characters of the stream handed to the constructor
    pos,              \* stream position: index of the next character
    good,             \* stream.good()
    pc,               \* position of the parser: "outer", "body", "done", "idle"
    ssn,              \* ClassificationList::ClassificationList, local ssn
    classifications,  \* ClassificationList::classifications
    iter,             \* SubsampleClassifications: <<>> = end, <<c>> = value held
    result,           \* SubsampleClassifications: result
    className,        \* SubsampleClassifications: className
    index,            \* SubsampleClassifications: index
    consumed,         \* history: the values nextChar took in the current body
    bodies            \* history: consumed, for each subsample already returned

parserVars == <<stream, pos, good, pc, ssn, classifications, iter, result,
                className, index, consumed, bodies>>

VARIABLES
    label,            \* WriteSort: a classification string to be mapped
    pidx,             \* WriteSort: pclindex
    aidx,             \* WriteSort: aclindex
    mpc               \* position in the mapping: "pcl", "acl", "mapped", "idle"

mapVars == <<label, pidx, aidx, mpc>>

VARIABLES
    pclstream,        \* the contents of the .pcl file
    aclstream,        \* the contents of the .acl file
    pclopen,          \* the .pcl file could be opened
    aclopen,          \* the .acl file could be opened
    sinkopen,         \* fopen of ConfusionMatrix.txt yields a FILE
    subsamplenumber,  \* PatchExtractor::subsamplenumber
    pclpatchlist,     \* WriteSort: pclpatchlist.Classifications()
    aclpatchlist,     \* WriteSort: aclpatchlist.Classifications()
    conmatrix,        \* WriteSort: conmatrix
    count,            \* WriteSort: count
    sink,             \* the characters of ConfusionMatrix.txt
    undefined,        \* undefined behaviour has occurred: an out-of-range
                      \* element of Classifications() was read, or a null
                      \* FILE was written
    wpc,              \* position in WriteSort: "parse", "loop", "done",
                      \* "crashed", "idle"
    prior,            \* history: the contents of the file at the start
    written           \* history: the matrices written, in order

buildVars == <<pclstream, aclstream, pclopen, aclopen, sinkopen,
               subsamplenumber, pclpatchlist, aclpatchlist, conmatrix, count,
               sink, undefined, wpc, prior, written>>

VARIABLES
    listfile,         \* the contents of the runfile list
    listopen,         \* the runfile list could be opened
    lpos,             \* runfileliststream: index of the next character
    lgood,            \* runfileliststream.good()
    leof,             \* runfileliststream.eof()
    inputdirectory,   \* PatchExtractor::inputdirectory
    calls,            \* history: the names WriteSort was called with
    fs,               \* the classification files: path -> contents
    spc,              \* position in Sort and main: "first", "loop", "done",
                      \* "exit", "idle"
    log,              \* the lines written to std::cout, in order
    exitstatus        \* the value main returned, "none" before it returns

sortVars == <<listfile, listopen, lpos, lgood, leof, inputdirectory, calls,
              fs, spc, log, exitstatus>>

vars == <<parserVars, mapVars, buildVars, sortVars>>

-----------------------------------------------------------------------------
(* Bounds of the model *)

\* the longest stream assembled from pieces, counted in pieces
MaxPieces == 5

\* the most labels in the body of a generated block
MaxLabels == 2

\* the most blocks in a stream of closed blocks
MaxBlocks == 2

\* the most pieces in a stream of the fair specification
MaxShort == 3

-----------------------------------------------------------------------------
(* Characters and strings *)

\* the vertical tab, character 11, for which TLA+ has no escape: the string
\* holds the character itself
VerticalTab == ""

\* std::isspace in the classic locale, as used by operator>> (skipws) and by
\* boost::trim_left: space and the characters 9 to 13
IsSpace(c) == c \in {" ", "\t", "\n", VerticalTab, "\f", "\r"}

\* the std::string made of the characters of a sequence
RECURSIVE Str(_)
Str(s) == IF s = <<>> THEN "" ELSE Head(s) \o Str(Tail(s))

\* boost::trim_left: drop the leading whitespace
RECURSIVE TrimLeft(_)
TrimLeft(s) ==
    IF s = <<>> THEN <<>>
    ELSE IF IsSpace(Head(s)) THEN TrimLeft(Tail(s))
    ELSE s

-----------------------------------------------------------------------------
(* std::istream operations *)

\* index of the first occurrence of delim at or after p, 0 when there is none
RECURSIVE FindDelim(_, _, _)
FindDelim(s, p, delim) ==
    IF p > Len(s) THEN 0
    ELSE IF s[p] = delim THEN p
    ELSE FindDelim(s, p + 1, delim)

\* std::getline(stream, input, delim): ok is the truth value of the returned
\* stream (!fail()).  The sentry fails on a stream that is not good.  The
\* delimiter is extracted and discarded; reaching end of stream sets eofbit,
\* and failbit when no character was extracted.
GetLine(s, p, g, delim) ==
    IF ~g THEN [ok |-> FALSE, input |-> <<>>, pos |-> p, good |-> FALSE]
    ELSE LET q == FindDelim(s, p, delim) IN
         IF q # 0
         THEN [ok |-> TRUE, input |-> SubSeq(s, p, q - 1),
               pos |-> q + 1, good |-> TRUE]
         ELSE [ok |-> p <= Len(s), input |-> SubSeq(s, p, Len(s)),
               pos |-> Len(s) + 1, good |-> FALSE]

\* index of the first non-whitespace character at or after p, Len(s)+1 if none
RECURSIVE SkipWs(_, _)
SkipWs(s, p) ==
    IF p > Len(s) THEN p
    ELSE IF IsSpace(s[p]) THEN SkipWs(s, p + 1)
    ELSE p

\* ReadChar that leaves the character it yields in the stream
ReadChar_NoAdvance(s, p, g) ==
    IF ~g THEN [ok |-> FALSE, ch |-> "", pos |-> p, good |-> FALSE]
    ELSE LET q == SkipWs(s, p) IN
         IF q > Len(s)
         THEN [ok |-> FALSE, ch |-> "", pos |-> q, good |-> FALSE]
         ELSE [ok |-> TRUE, ch |-> s[q], pos |-> q, good |-> TRUE]

\* stream >> char, the extraction behind std::istream_iterator<char>: leading
\* whitespace is skipped (skipws is set by default); it fails at end of stream
\* and on a stream that is not good.
ReadChar(s, p, g) ==
    IF ~g THEN [ok |-> FALSE, ch |-> "", pos |-> p, good |-> FALSE]
    ELSE LET q == SkipWs(s, p) IN
         IF q > Len(s)
         THEN [ok |-> FALSE, ch |-> "", pos |-> q, good |-> FALSE]
         ELSE [ok |-> TRUE, ch |-> s[q], pos |-> q + 1, good |-> TRUE]

\* the value an istream_iterator holds after a read: the end iterator when the
\* read failed
IterOf(rc) == IF rc.ok THEN <<rc.ch>> ELSE <<>>

-----------------------------------------------------------------------------
(* PatchClassification *)

PatchClassification(s, idx, cls) ==
    [subsampleNumber |-> s, patchIndex |-> idx, classification |-> cls]

\* Emit with the else branch lost: an empty token pushes nothing
Emit_SkipEmpty(res, n, idx, cls) ==
    IF cls # ""
    THEN Append(res, PatchClassification(n, idx, cls))
    ELSE res

\* SubsampleClassifications, lines 79-91: the record pushed when a delimiter
\* is read
Emit(res, n, idx, cls) ==
    IF cls # ""
    THEN Append(res, PatchClassification(n, idx, cls))
    ELSE Append(res, PatchClassification(n, idx, "NONE"))

-----------------------------------------------------------------------------
(* ClassificationList::SubsampleClassifications *)

\* The frame of a call: the stream state and the locals.
\* the state on entry: the construction of iter(stream) reads one character
BodyEntry(s, p, g, n) ==
    LET rc == ReadChar(s, p, g) IN
    [pos |-> rc.pos, good |-> rc.good, iter |-> IterOf(rc), ssn |-> n,
     result |-> <<>>, className |-> "", index |-> 0, brk |-> FALSE]

\* BodyIter with ++index moved into the branch that pushes a label
BodyIter_IndexOnLabel(s, st) ==
    LET nextChar == st.iter[1]
        rc       == ReadChar(s, st.pos, st.good)
        adv      == [st EXCEPT !.pos = rc.pos, !.good = rc.good,
                               !.iter = IterOf(rc)]
    IN  IF nextChar = "," \/ nextChar = "<"
        THEN [adv EXCEPT
                !.result    = Emit(st.result, st.ssn, st.index, st.className),
                !.className = "",
                !.index     = IF st.className # "" THEN st.index + 1
                              ELSE st.index,
                !.brk       = (nextChar = "<")]
        ELSE [adv EXCEPT !.className = st.className \o nextChar]

\* BodyIter with the break at '<' lost
BodyIter_NoBreak(s, st) ==
    LET nextChar == st.iter[1]
        rc       == ReadChar(s, st.pos, st.good)
        adv      == [st EXCEPT !.pos = rc.pos, !.good = rc.good,
                               !.iter = IterOf(rc)]
    IN  IF nextChar = "," \/ nextChar = "<"
        THEN [adv EXCEPT
                !.result    = Emit(st.result, st.ssn, st.index, st.className),
                !.className = "",
                !.index     = st.index + 1]
        ELSE [adv EXCEPT !.className = st.className \o nextChar]

\* one iteration of while (iter != end): *iter++ yields the value held and
\* reads the next character before the body of the loop runs
BodyIter(s, st) ==
    LET nextChar == st.iter[1]
        rc       == ReadChar(s, st.pos, st.good)
        adv      == [st EXCEPT !.pos = rc.pos, !.good = rc.good,
                               !.iter = IterOf(rc)]
    IN  IF nextChar = "," \/ nextChar = "<"
        THEN [adv EXCEPT
                !.result    = Emit(st.result, st.ssn, st.index, st.className),
                !.className = "",
                !.index     = st.index + 1,
                !.brk       = (nextChar = "<")]
        ELSE [adv EXCEPT !.className = st.className \o nextChar]

\* BodyReturn with the token left in className flushed as a last record
BodyReturn_Flush(st) ==
    IF st.className # ""
    THEN Append(st.result,
                PatchClassification(st.ssn, st.index, st.className))
    ELSE st.result

\* return (result)
BodyReturn(st) == st.result

RECURSIVE BodyLoop(_, _)
BodyLoop(s, st) ==
    IF st.iter = <<>> \/ st.brk THEN st
    ELSE BodyLoop(s, BodyIter(s, st))

\* the vector returned and the stream state left behind
SubsampleClassifications(s, p, g, n) ==
    LET st == BodyLoop(s, BodyEntry(s, p, g, n)) IN
    [result |-> BodyReturn(st), pos |-> st.pos, good |-> st.good]

-----------------------------------------------------------------------------
(* ClassificationList::ClassificationList(std::istream&) *)

\* input == "<CLASS" after boost::trim_left(input)
IsClassTag(input) == Str(TrimLeft(input)) = "<CLASS"

RECURSIVE OuterLoop(_, _, _, _, _)
OuterLoop(s, p, g, n, cls) ==
    LET gl == GetLine(s, p, g, ">") IN
    IF ~gl.ok THEN cls
    ELSE IF IsClassTag(gl.input)
    THEN LET b == SubsampleClassifications(s, gl.pos, gl.good, n + 1) IN
         OuterLoop(s, b.pos, b.good, n + 1, Append(cls, b.result))
    ELSE LET d == GetLine(s, gl.pos, gl.good, "\n") IN
         OuterLoop(s, d.pos, d.good, n, cls)

\* the classifications of the list constructed from a stream whose good() is g
ClassificationList(s, g) == OuterLoop(s, 1, g, 0, <<>>)

-----------------------------------------------------------------------------
(* The streams parsed *)

\* the pieces streams are assembled from
Pieces ==
    { <<"<", "C", "L", "A", "S", "S", ">">>,
      <<"/", "C", "L", "A", "S", "S", ">">>,
      <<"A">>, <<",">>, <<"<">>, <<"\n">>, <<" ">> }

RECURSIVE Flatten(_)
Flatten(ss) == IF ss = <<>> THEN <<>> ELSE Head(ss) \o Flatten(Tail(ss))

PieceStreams ==
    { Flatten(ps) : ps \in UNION { [1..k -> Pieces] : k \in 0..MaxPieces } }

\* "<CLASS>" followed by a body
Block(body) == <<"<", "C", "L", "A", "S", "S", ">">> \o body

\* the labels the generated bodies are made of
LabelPool == { <<"R", "B", "C">>, <<"X", "Y">> }

LabelSeqs == UNION { [1..k -> LabelPool] : k \in 0..MaxLabels }

RECURSIVE Join(_)
Join(ls) ==
    IF ls = <<>> THEN <<>>
    ELSE IF Len(ls) = 1 THEN Head(ls)
    ELSE Head(ls) \o <<",">> \o Join(Tail(ls))

CloseTag == <<"<", "/", "C", "L", "A", "S", "S", ">", "\n">>

\* "<CLASS>l1,...,ln</CLASS>\n"
ClosedBlock(ls) == Block(Join(ls)) \o CloseTag

\* "<CLASS>l1,...,ln": the stream ends inside the body
OpenBlock(ls) == Block(Join(ls))

\* streams of closed blocks, "<CLASS>body</CLASS>\n" each
ClosedStreams ==
    { Flatten([i \in 1..Len(bl) |-> ClosedBlock(bl[i])]) :
        bl \in UNION { [1..k -> LabelSeqs] : k \in 0..MaxBlocks } }

JunkLine == <<"j", "u", "n", "k", " ", "l", "i", "n", "e", "\n">>

\* the first stream of the end-to-end scenario
ScenarioStream ==
    JunkLine
    \o Block(<<"R", "B", "C", ",", "W", "B", "C", ",", "<">>)
    \o <<"C", "L", "A", "S", "S", ">",
         "N", "O", "N", "E", ",", "R", "B", "C", ",", "<">>

\* streams of particular shapes, beyond the reach of MaxPieces pieces
ShapedStreams ==
    { ScenarioStream,
      Block(<<"A", ",", ",", "B", "<">>),
      Block(<<"A", ",", "B">>),
      Block(<<"A", " ", "B", ",", "\n", "B", "<">>),
      <<VerticalTab>> \o Block(<<"A", VerticalTab, "B", ",", VerticalTab, "<">>),
      <<"<", "C", "L", "A", "S", "S">>,
      <<"<", "H", ">", "\n">> \o Block(<<"A", ",", "<">>),
      Block(<<"A", ",", "B", "<", "/", "C", "L", "A", "S", "S", ">", "\n">>)
        \o Block(<<"B", "<", "/", "C", "L", "A", "S", "S", ">", "\n">>) }

ParseStreams == PieceStreams \cup ClosedStreams \cup ShapedStreams

-----------------------------------------------------------------------------
(* The parser as a state machine: one step per iteration of either loop *)

\* the mapping is not in use
MapIdle ==
    /\ label = ""
    /\ pidx = 25
    /\ aidx = 25
    /\ mpc = "idle"

\* WriteSort is not in use
BuildIdle ==
    /\ pclstream = <<>>
    /\ aclstream = <<>>
    /\ pclopen = FALSE
    /\ aclopen = FALSE
    /\ sinkopen = FALSE
    /\ subsamplenumber = 1
    /\ pclpatchlist = <<>>
    /\ aclpatchlist = <<>>
    /\ conmatrix = <<>>
    /\ count = 0
    /\ sink = <<>>
    /\ undefined = FALSE
    /\ wpc = "idle"
    /\ prior = <<>>
    /\ written = <<>>

\* Sort is not in use
SortIdle ==
    /\ listfile = <<>>
    /\ listopen = FALSE
    /\ lpos = 1
    /\ lgood = FALSE
    /\ leof = FALSE
    /\ inputdirectory = <<>>
    /\ calls = <<>>
    /\ fs = <<>>
    /\ spc = "idle"
    /\ log = <<>>
    /\ exitstatus = "none"

\* no stream is being parsed step by step
ParseIdle ==
    /\ stream = <<>>
    /\ pos = 1
    /\ good = TRUE
    /\ pc = "idle"
    /\ ssn = 0
    /\ classifications = <<>>
    /\ iter = <<>>
    /\ result = <<>>
    /\ className = ""
    /\ index = 0
    /\ consumed = <<>>
    /\ bodies = <<>>

ParseInit ==
    /\ MapIdle
    /\ BuildIdle
    /\ SortIdle
    /\ stream \in ParseStreams
    /\ pos = 1
    /\ good = TRUE
    /\ pc = "outer"
    /\ ssn = 0
    /\ classifications = <<>>
    /\ iter = <<>>
    /\ result = <<>>
    /\ className = ""
    /\ index = 0
    /\ consumed = <<>>
    /\ bodies = <<>>

\* the locals of SubsampleClassifications as a frame
Frame ==
    [pos |-> pos, good |-> good, iter |-> iter, ssn |-> ssn, result |-> result,
     className |-> className, index |-> index, brk |-> FALSE]

SetFrame(st) ==
    /\ pos' = st.pos
    /\ good' = st.good
    /\ iter' = st.iter
    /\ result' = st.result
    /\ className' = st.className
    /\ index' = st.index

\* while (std::getline(stream,input,'>')) is false: the constructor returns
OuterEnd ==
    /\ pc = "outer"
    /\ LET gl == GetLine(stream, pos, good, ">") IN
       /\ ~gl.ok
       /\ pos' = gl.pos
       /\ good' = gl.good
    /\ pc' = "done"
    /\ UNCHANGED <<stream, ssn, classifications, iter, result, className,
                   index, consumed, bodies>>
    /\ UNCHANGED <<mapVars, buildVars, sortVars>>

\* input == "<CLASS": SubsampleClassifications(stream,++ssn) is entered
OuterClass ==
    /\ pc = "outer"
    /\ LET gl == GetLine(stream, pos, good, ">") IN
       /\ gl.ok
       /\ IsClassTag(gl.input)
       /\ SetFrame(BodyEntry(stream, gl.pos, gl.good, ssn + 1))
    /\ ssn' = ssn + 1
    /\ consumed' = <<>>
    /\ pc' = "body"
    /\ UNCHANGED <<stream, classifications, bodies>>
    /\ UNCHANGED <<mapVars, buildVars, sortVars>>

\* any other input: std::getline(stream,input) discards the rest of the line
OuterDiscard ==
    /\ pc = "outer"
    /\ LET gl == GetLine(stream, pos, good, ">") IN
       /\ gl.ok
       /\ ~IsClassTag(gl.input)
       /\ LET d == GetLine(stream, gl.pos, gl.good, "\n") IN
          /\ pos' = d.pos
          /\ good' = d.good
    /\ UNCHANGED <<stream, pc, ssn, classifications, iter, result, className,
                   index, consumed, bodies>>
    /\ UNCHANGED <<mapVars, buildVars, sortVars>>

\* the return of SubsampleClassifications and the push_back of its value
PushSubsample(st, taken) ==
    /\ classifications' = Append(classifications, BodyReturn(st))
    /\ bodies' = Append(bodies, taken)
    /\ consumed' = <<>>
    /\ pc' = "outer"

\* an iteration that reads a delimiter and does not break: a record is
\* pushed, the loop goes on
BodyComma ==
    /\ pc = "body"
    /\ iter # <<>>
    /\ iter[1] \in {",", "<"}
    /\ ~BodyIter(stream, Frame).brk
    /\ SetFrame(BodyIter(stream, Frame))
    /\ consumed' = Append(consumed, iter[1])
    /\ UNCHANGED <<stream, pc, ssn, classifications, bodies>>
    /\ UNCHANGED <<mapVars, buildVars, sortVars>>

\* an iteration that reads '<': a record is pushed, the loop breaks, the
\* function returns and the constructor pushes the vector
BodyTag ==
    /\ pc = "body"
    /\ iter # <<>>
    /\ BodyIter(stream, Frame).brk
    /\ LET st == BodyIter(stream, Frame) IN
       /\ SetFrame(st)
       /\ PushSubsample(st, Append(consumed, iter[1]))
    /\ UNCHANGED <<stream, ssn>>
    /\ UNCHANGED <<mapVars, buildVars, sortVars>>

\* an iteration that reads any other character
BodyChar ==
    /\ pc = "body"
    /\ iter # <<>>
    /\ iter[1] \notin {",", "<"}
    /\ SetFrame(BodyIter(stream, Frame))
    /\ consumed' = Append(consumed, iter[1])
    /\ UNCHANGED <<stream, pc, ssn, classifications, bodies>>
    /\ UNCHANGED <<mapVars, buildVars, sortVars>>

\* iter == end: the loop ends, the function returns and the constructor
\* pushes the vector
BodyEnd ==
    /\ pc = "body"
    /\ iter = <<>>
    /\ PushSubsample(Frame, consumed)
    /\ UNCHANGED <<stream, pos, good, ssn, iter, result, className, index>>
    /\ UNCHANGED <<mapVars, buildVars, sortVars>>

ParseNext ==
    \/ OuterEnd
    \/ OuterClass
    \/ OuterDiscard
    \/ BodyComma
    \/ BodyTag
    \/ BodyChar
    \/ BodyEnd

Spec == ParseInit /\ [][ParseNext]_vars

\* the constructor runs to its end: single-threaded code that is not
\* suspended takes its next step
FairStreams ==
    { Flatten(ps) : ps \in UNION { [1..k -> Pieces] : k \in 0..MaxShort } }
        \cup ClosedStreams \cup ShapedStreams

FairInit == ParseInit /\ stream \in FairStreams

SpecFair == FairInit /\ [][ParseNext]_vars /\ WF_vars(ParseNext)

-----------------------------------------------------------------------------
(* PatchExtractor::WriteSort: the label indices *)

\* the labels a chain compares against, in the order of the chain
ChainLabels ==
    <<"RBC", "DRBC", "RBCC", "WBC", "WBCC", "BACT", "SQEP", "NSE", "TREP",
      "REEP", "CAOX", "URIC", "TPO4", "CAPH", "CYST", "LEUC", "AMOR", "CELL",
      "GRAN", "MUCS", "SPRM", "BYST", "HYST", "TRCH", "BUBB">>

\* a chain over the labels of tbl: the position (from 0) of the first label
\* equal to cls, 25 when none is
RECURSIVE ChainOver(_, _, _)
ChainOver(tbl, cls, i) ==
    IF i > Len(tbl) THEN 25
    ELSE IF cls = tbl[i] THEN i - 1
    ELSE ChainOver(tbl, cls, i + 1)

\* pclindex with the results of the WBC and WBCC branches exchanged
pclindex_Swapped(cls) ==
    ChainOver([ChainLabels EXCEPT ![4] = "WBCC", ![5] = "WBC"], cls, 1)

\* lines 199-225: pclindex starts at 25; the chain of compare() calls on
\* pclclassification
pclindex(cls) ==
    IF cls = "RBC" THEN 0
    ELSE IF cls = "DRBC" THEN 1
    ELSE IF cls = "RBCC" THEN 2
    ELSE IF cls = "WBC" THEN 3
    ELSE IF cls = "WBCC" THEN 4
    ELSE IF cls = "BACT" THEN 5
    ELSE IF cls = "SQEP" THEN 6
    ELSE IF cls = "NSE" THEN 7
    ELSE IF cls = "TREP" THEN 8
    ELSE IF cls = "REEP" THEN 9
    ELSE IF cls = "CAOX" THEN 10
    ELSE IF cls = "URIC" THEN 11
    ELSE IF cls = "TPO4" THEN 12
    ELSE IF cls = "CAPH" THEN 13
    ELSE IF cls = "CYST" THEN 14
    ELSE IF cls = "LEUC" THEN 15
    ELSE IF cls = "AMOR" THEN 16
    ELSE IF cls = "CELL" THEN 17
    ELSE IF cls = "GRAN" THEN 18
    ELSE IF cls = "MUCS" THEN 19
    ELSE IF cls = "SPRM" THEN 20
    ELSE IF cls = "BYST" THEN 21
    ELSE IF cls = "HYST" THEN 22
    ELSE IF cls = "TRCH" THEN 23
    ELSE IF cls = "BUBB" THEN 24
    ELSE IF cls = "NONE" THEN 25
    ELSE 25

\* aclindex with the label of the WBC branch misspelt
aclindex_WbcTypo(cls) ==
    ChainOver([ChainLabels EXCEPT ![4] = "WBc"], cls, 1)

\* aclindex with one label of the copied chain misspelt (TP04 for TPO4)
aclindex_Misspelt(cls) ==
    ChainOver([ChainLabels EXCEPT ![13] = "TP04"], cls, 1)

\* lines 199, 227-252: aclindex starts at 25; the chain of compare() calls on
\* aclclassification
aclindex(cls) ==
    IF cls = "RBC" THEN 0
    ELSE IF cls = "DRBC" THEN 1
    ELSE IF cls = "RBCC" THEN 2
    ELSE IF cls = "WBC" THEN 3
    ELSE IF cls = "WBCC" THEN 4
    ELSE IF cls = "BACT" THEN 5
    ELSE IF cls = "SQEP" THEN 6
    ELSE IF cls = "NSE" THEN 7
    ELSE IF cls = "TREP" THEN 8
    ELSE IF cls = "REEP" THEN 9
    ELSE IF cls = "CAOX" THEN 10
    ELSE IF cls = "URIC" THEN 11
    ELSE IF cls = "TPO4" THEN 12
    ELSE IF cls = "CAPH" THEN 13
    ELSE IF cls = "CYST" THEN 14
    ELSE IF cls = "LEUC" THEN 15
    ELSE IF cls = "AMOR" THEN 16
    ELSE IF cls = "CELL" THEN 17
    ELSE IF cls = "GRAN" THEN 18
    ELSE IF cls = "MUCS" THEN 19
    ELSE IF cls = "SPRM" THEN 20
    ELSE IF cls = "BYST" THEN 21
    ELSE IF cls = "HYST" THEN 22
    ELSE IF cls = "TRCH" THEN 23
    ELSE IF cls = "BUBB" THEN 24
    ELSE IF cls = "NONE" THEN 25
    ELSE 25

-----------------------------------------------------------------------------
(* The mapping of one label, as a state machine *)

ChainLabelSet == { ChainLabels[i] : i \in DOMAIN ChainLabels }

\* the strings mapped: the labels of the chains, the sentinel, and strings
\* that differ from a label by case, by a space or by one more character
MapLabels ==
    ChainLabelSet
    \cup { "NONE", "", "rbc", "Rbc", "wbc", "none", "XY", "A", "RBCWBC" }
    \cup { l \o "C" : l \in ChainLabelSet }
    \cup { l \o " " : l \in ChainLabelSet }
    \cup { " " \o l : l \in ChainLabelSet }

MapInit ==
    /\ ParseIdle
    /\ BuildIdle
    /\ SortIdle
    /\ label \in MapLabels
    /\ pidx = 25
    /\ aidx = 25
    /\ mpc = "pcl"

\* lines 200-225
MapPcl ==
    /\ mpc = "pcl"
    /\ pidx' = pclindex(label)
    /\ mpc' = "acl"
    /\ UNCHANGED <<label, aidx, parserVars, buildVars, sortVars>>

\* lines 227-252
MapAcl ==
    /\ mpc = "acl"
    /\ aidx' = aclindex(label)
    /\ mpc' = "mapped"
    /\ UNCHANGED <<label, pidx, parserVars, buildVars, sortVars>>

MapNext ==
    \/ MapPcl
    \/ MapAcl

SpecMap == MapInit /\ [][MapNext]_vars

-----------------------------------------------------------------------------
(* PatchExtractor::WriteSort *)

\* conmatrix(26,26): both dimensions of the matrix
Dim == 26

\* the largest subsample number a PatchExtractor is constructed with
MaxSample == 2

\* the most patches counted from an out-of-range read
MaxGarbage == 1

\* ISL::Math::Matrix<int32_t,2>(26,26): every element zero
ZeroMatrix == [i \in 0..(Dim - 1) |-> [j \in 0..(Dim - 1) |-> 0]]

\* Classifications()[this->subsamplenumber-1] is an element of the vector
InRange(list) == subsamplenumber \in 1..Len(list)

\* Classifications()[this->subsamplenumber-1], when it is an element
Sub(list) == list[subsamplenumber]

\* the loop condition evaluates without reading outside a vector: the left
\* operand of && reads the pcl vector, the right operand is evaluated only
\* when the left is true and reads the acl vector
CondDefined ==
    /\ InRange(pclpatchlist)
    /\ (count < Len(Sub(pclpatchlist)) => InRange(aclpatchlist))

\* LoopCond with the first comparison off by one
LoopCond_OffByOne ==
    /\ count + 1 < Len(Sub(pclpatchlist))
    /\ count < Len(Sub(aclpatchlist))

\* (count < pcl[..].size()) && (count < acl[..].size())
LoopCond ==
    /\ count < Len(Sub(pclpatchlist))
    /\ count < Len(Sub(aclpatchlist))

\* Increment that counts the pair in both orders
Increment_Both(m, i, j) ==
    [m EXCEPT ![i][j] = @ + 1, ![j][i] = IF i = j THEN @ ELSE @ + 1]

\* ++conmatrix(pclindex,aclindex)
Increment(m, i, j) == [m EXCEPT ![i][j] = @ + 1]

\* the decimal digits of a natural number
RECURSIVE Digits(_)
Digits(n) ==
    LET d == <<"0", "1", "2", "3", "4", "5", "6", "7", "8", "9">>[(n % 10) + 1]
    IN  IF n < 10 THEN <<d>> ELSE Append(Digits(n \div 10), d)

\* the conversion "%d" of fprintf
FormatD(n) == IF n < 0 THEN <<"-">> \o Digits(-n) ELSE Digits(n)

\* the inner loop, lines 267-270, and line 271: the elements of row i, each
\* printed with "%d\t", and "\n"
RowText(m, i) ==
    Flatten([j \in 1..Dim |-> Append(FormatD(m[i][j - 1]), "\t")]) \o <<"\n">>

\* Rows with the two loop indices exchanged
Rows_Transposed(m) ==
    Flatten([i \in 1..Dim |->
        Flatten([j \in 1..Dim |-> Append(FormatD(m[j - 1][i - 1]), "\t")])
            \o <<"\n">>])

\* lines 265-272: the text printed for the matrix, row after row
Rows(m) == Flatten([i \in 1..Dim |-> RowText(m, i - 1)])

\* FileAppend that opens the file for writing from its start
FileAppend_Truncate(content, text) == text

\* fopen(..., "a+") and the fprintf calls: output goes to the end of the file
FileAppend(content, text) == content \o text

SecondBlocks ==
    { ClosedBlock(<<<<"W", "B", "C">>>>),
      OpenBlock(<<<<"X", "Y">>, <<"R", "B", "C">>>>) }

\* a subsample of five patches and one of three
FiveItems ==
    ClosedBlock(<< <<"R", "B", "C">>, <<"W", "B", "C">>, <<"N", "S", "E">>,
                   <<"r", "b", "c">>, <<"B", "U", "B", "B">> >>)

ThreeItems ==
    ClosedBlock(<< <<"R", "B", "C">>, <<"N", "S", "E">>, <<"W", "B", "C">> >>)

\* the contents of a .pcl file
BuildStreams ==
    { ClosedBlock(ls) : ls \in LabelSeqs }
    \cup { ClosedBlock(ls) \o sb : ls \in LabelSeqs, sb \in SecondBlocks }
    \cup { ScenarioStream, FiveItems, ThreeItems, OpenBlock(<<>>), <<>> }

\* the contents of an .acl file
AclStreams ==
    { ClosedBlock(ls) : ls \in LabelSeqs }
    \cup { ScenarioStream, FiveItems, ThreeItems, OpenBlock(<<>>), <<>> }

\* the label an out-of-range read yields: characters that are no label of a
\* chain, which both chains map as they map "NONE"
GarbageLabels == { "NONE" }

BuildInit ==
    /\ ParseIdle
    /\ MapIdle
    /\ SortIdle
    /\ pclstream \in BuildStreams
    /\ aclstream \in AclStreams
    /\ pclopen = TRUE
    /\ aclopen = TRUE
    /\ sinkopen = TRUE
    /\ subsamplenumber \in 0..MaxSample
    /\ pclpatchlist = <<>>
    /\ aclpatchlist = <<>>
    /\ conmatrix = <<>>
    /\ count = 0
    /\ sink = <<>>
    /\ undefined = FALSE
    /\ wpc = "parse"
    /\ prior = <<>>
    /\ written = <<>>

\* lines 172-191: both lists are constructed, each from a stream that is
\* good only when its file was opened, and the matrix is created
WS_Parse ==
    /\ wpc = "parse"
    /\ pclpatchlist' = ClassificationList(pclstream, pclopen)
    /\ aclpatchlist' = ClassificationList(aclstream, aclopen)
    /\ conmatrix' = ZeroMatrix
    /\ count' = 0
    /\ wpc' = "loop"
    /\ UNCHANGED <<pclstream, aclstream, pclopen, aclopen, sinkopen,
                   subsamplenumber, sink, undefined, prior, written>>
    /\ UNCHANGED <<parserVars, mapVars, sortVars>>

\* lines 192-255: one iteration of the loop
WS_Count ==
    /\ wpc = "loop"
    /\ CondDefined
    /\ LoopCond
    /\ LET pclclassification == Sub(pclpatchlist)[count + 1].classification
           aclclassification == Sub(aclpatchlist)[count + 1].classification
       IN  conmatrix' = Increment(conmatrix, pclindex(pclclassification),
                                  aclindex(aclclassification))
    /\ count' = count + 1
    /\ UNCHANGED <<pclstream, aclstream, pclopen, aclopen, sinkopen,
                   subsamplenumber, pclpatchlist, aclpatchlist, sink,
                   undefined, wpc, prior, written>>
    /\ UNCHANGED <<parserVars, mapVars, sortVars>>

\* lines 256-275: the loop has ended, the matrix is appended to the file
WS_Write ==
    /\ wpc = "loop"
    /\ CondDefined
    /\ ~LoopCond
    /\ sinkopen
    /\ sink' = FileAppend(sink, Rows(conmatrix))
    /\ written' = Append(written, conmatrix)
    /\ wpc' = "done"
    /\ UNCHANGED <<pclstream, aclstream, pclopen, aclopen, sinkopen,
                   subsamplenumber, pclpatchlist, aclpatchlist, conmatrix,
                   count, undefined, prior>>
    /\ UNCHANGED <<parserVars, mapVars, sortVars>>

\* The loop condition reads Classifications()[subsamplenumber-1] outside the
\* vector: undefined behaviour.  The read may fault, ...
WS_Fault ==
    /\ wpc = "loop"
    /\ ~CondDefined
    /\ undefined' = TRUE
    /\ wpc' = "crashed"
    /\ UNCHANGED <<pclstream, aclstream, pclopen, aclopen, sinkopen,
                   subsamplenumber, pclpatchlist, aclpatchlist, conmatrix,
                   count, sink, prior, written>>
    /\ UNCHANGED <<parserVars, mapVars, sortVars>>

\* ... or yield a size that ends the loop, ...
WS_GarbageExit ==
    /\ wpc = "loop"
    /\ ~CondDefined
    /\ sinkopen
    /\ undefined' = TRUE
    /\ sink' = FileAppend(sink, Rows(conmatrix))
    /\ written' = Append(written, conmatrix)
    /\ wpc' = "done"
    /\ UNCHANGED <<pclstream, aclstream, pclopen, aclopen, sinkopen,
                   subsamplenumber, pclpatchlist, aclpatchlist, conmatrix,
                   count, prior>>
    /\ UNCHANGED <<parserVars, mapVars, sortVars>>

\* ... or yield a size above count and some string as the classification.
WS_GarbageCount ==
    /\ wpc = "loop"
    /\ ~CondDefined
    /\ count < MaxGarbage
    /\ undefined' = TRUE
    /\ \E gp \in GarbageLabels, ga \in GarbageLabels :
          conmatrix' = Increment(conmatrix, pclindex(gp), aclindex(ga))
    /\ count' = count + 1
    /\ UNCHANGED <<pclstream, aclstream, pclopen, aclopen, sinkopen,
                   subsamplenumber, pclpatchlist, aclpatchlist, sink, wpc,
                   prior, written>>
    /\ UNCHANGED <<parserVars, mapVars, sortVars>>

\* the loop ends, by its condition or by an out-of-range read
LoopEnds == CondDefined => ~LoopCond

\* lines 264-274 when fopen returned a null pointer, which the code does not
\* test: fprintf and fclose on it are undefined behaviour.  They may fault, ...
WS_NullFault ==
    /\ wpc = "loop"
    /\ LoopEnds
    /\ ~sinkopen
    /\ undefined' = TRUE
    /\ wpc' = "crashed"
    /\ UNCHANGED <<pclstream, aclstream, pclopen, aclopen, sinkopen,
                   subsamplenumber, pclpatchlist, aclpatchlist, conmatrix,
                   count, sink, prior, written>>
    /\ UNCHANGED <<parserVars, mapVars, sortVars>>

\* ... or return having written nothing.
WS_NullSkip ==
    /\ wpc = "loop"
    /\ LoopEnds
    /\ ~sinkopen
    /\ undefined' = TRUE
    /\ wpc' = "done"
    /\ UNCHANGED <<pclstream, aclstream, pclopen, aclopen, sinkopen,
                   subsamplenumber, pclpatchlist, aclpatchlist, conmatrix,
                   count, sink, prior, written>>
    /\ UNCHANGED <<parserVars, mapVars, sortVars>>

BuildNext ==
    \/ WS_Parse
    \/ WS_Count
    \/ WS_Write
    \/ WS_Fault
    \/ WS_GarbageExit
    \/ WS_GarbageCount

\* a build whose three files can be opened
SpecBuild == BuildInit /\ [][BuildNext]_vars

-----------------------------------------------------------------------------
(* PatchExtractor::Sort, lines 128-153, as called by main with subsample 1 *)

\* the most runfile names on a generated list
MaxRuns == 2

\* the most calls of WriteSort followed on a list that never reaches its end
MaxCalls == 3

Names == { <<"a">>, <<"b">> }

Directory == <<"d", "/">>

\* the text of a runfile list: the directory, then one name per line, the
\* last line with or without its newline
RECURSIVE NameLines(_)
NameLines(ns) ==
    IF ns = <<>> THEN <<>> ELSE <<"\n">> \o Head(ns) \o NameLines(Tail(ns))

ListFiles ==
    LET texts == { Directory \o NameLines(ns) :
                     ns \in UNION { [1..k -> Names] : k \in 0..MaxRuns } }
    IN  texts \cup { x \o <<"\n">> : x \in texts } \cup { <<>> }

\* the .pcl and .acl files of one runfile, as <<extension, contents>>; a
\* file that is not there cannot be opened
FiveThree == { <<".pcl", FiveItems>>, <<".acl", ThreeItems>> }

ThreeThree == { <<".pcl", ThreeItems>>, <<".acl", ThreeItems>> }

PclOnly == { <<".pcl", OpenBlock(<<>>)>> }

AclOnly == { <<".acl", ThreeItems>> }

\* the files of runfile a are pa, those of runfile b are pb
FileSystem(pa, pb) ==
    LET ent == { <<"d/a" \o e[1], e[2]>> : e \in pa }
                  \cup { <<"d/b" \o e[1], e[2]>> : e \in pb }
    IN  [ f \in { e[1] : e \in ent } |-> (CHOOSE e \in ent : e[1] = f)[2] ]

FileSystems ==
    { FileSystem(FiveThree, ThreeThree), FileSystem(PclOnly, FiveThree),
      FileSystem(AclOnly, ThreeThree) }

PriorSinks == { <<>>, <<"o", "l", "d", "\n">> }

\* std::ifstream(path): the stream is good when the file is there
FileOpen(path) == path \in DOMAIN fs

FileText(path) == IF path \in DOMAIN fs THEN fs[path] ELSE <<>>

\* this->inputdirectory + runfilename + extension
Path(dir, name, ext) == Str(dir) \o Str(name) \o ext

\* main, lines 333-336: the line printed before Sort is called
ReadyingLine == "Readying E:/rundata/runfile.txt for processing."

\* Sort, lines 148-150: the line printed before each call of WriteSort
ProcessingLine(name) == "Processing -> " \o Str(name)

\* main, line 341: the line printed after Sort has returned
InvalidLine == "Invalid argument list. Try again."

\* main has printed its first line and called Sort with subsample 1
SortInit ==
    /\ ParseIdle
    /\ MapIdle
    /\ listfile \in ListFiles
    /\ listopen \in BOOLEAN
    /\ (~listopen => listfile = <<>>)
    /\ lpos = 1
    /\ lgood = listopen
    /\ leof = FALSE
    /\ inputdirectory = <<>>
    /\ calls = <<>>
    /\ fs \in FileSystems
    /\ spc = "first"
    /\ log = <<ReadyingLine>>
    /\ exitstatus = "none"
    /\ pclstream = <<>>
    /\ aclstream = <<>>
    /\ pclopen = FALSE
    /\ aclopen = FALSE
    /\ sinkopen \in BOOLEAN
    /\ subsamplenumber = 1
    /\ pclpatchlist = <<>>
    /\ aclpatchlist = <<>>
    /\ conmatrix = <<>>
    /\ count = 0
    /\ prior \in PriorSinks
    /\ (~sinkopen => prior = <<>>)
    /\ sink = prior
    /\ undefined = FALSE
    /\ wpc = "idle"
    /\ written = <<>>

\* lines 133-137: the first line of the list is the input directory
SortFirst ==
    /\ spc = "first"
    /\ LET res == GetLine(listfile, lpos, lgood, "\n") IN
       /\ inputdirectory' = res.input
       /\ lpos' = res.pos
       /\ lgood' = res.good
       /\ leof' = (leof \/ (lgood /\ ~res.good))
    /\ spc' = "loop"
    /\ UNCHANGED <<listfile, listopen, calls, fs, log, exitstatus>>
    /\ UNCHANGED <<parserVars, mapVars, buildVars>>

\* lines 141-151 and 172-185: eof() is false, the next line is read and
\* WriteSort is entered with it, whatever the read gave; the two files
\* named after it are opened
SortCall ==
    /\ spc = "loop"
    /\ wpc \in {"idle", "done"}
    /\ ~leof
    /\ Len(calls) < MaxCalls
    /\ LET res == GetLine(listfile, lpos, lgood, "\n") IN
       /\ lpos' = res.pos
       /\ lgood' = res.good
       /\ leof' = (leof \/ (lgood /\ ~res.good))
       /\ calls' = Append(calls, res.input)
       /\ log' = Append(log, ProcessingLine(res.input))
       /\ pclstream' = FileText(Path(inputdirectory, res.input, ".pcl"))
       /\ pclopen' = FileOpen(Path(inputdirectory, res.input, ".pcl"))
       /\ aclstream' = FileText(Path(inputdirectory, res.input, ".acl"))
       /\ aclopen' = FileOpen(Path(inputdirectory, res.input, ".acl"))
    /\ pclpatchlist' = <<>>
    /\ aclpatchlist' = <<>>
    /\ conmatrix' = <<>>
    /\ count' = 0
    /\ wpc' = "parse"
    /\ UNCHANGED <<listfile, listopen, inputdirectory, fs, spc, exitstatus>>
    /\ UNCHANGED <<sinkopen, subsamplenumber, sink, undefined, prior, written>>
    /\ UNCHANGED <<parserVars, mapVars>>

\* line 141: eof() is true, Sort returns
SortEnd ==
    /\ spc = "loop"
    /\ wpc \in {"idle", "done"}
    /\ leof
    /\ spc' = "done"
    /\ UNCHANGED <<listfile, listopen, lpos, lgood, leof, inputdirectory,
                   calls, fs, log, exitstatus>>
    /\ UNCHANGED <<parserVars, mapVars, buildVars>>

\* main, lines 339-356: Sort has returned without an exception; the second
\* block prints its line and main returns EXIT_FAILURE
MainReturn ==
    /\ spc = "done"
    /\ log' = Append(log, InvalidLine)
    /\ exitstatus' = "EXIT_FAILURE"
    /\ spc' = "exit"
    /\ UNCHANGED <<listfile, listopen, lpos, lgood, leof, inputdirectory,
                   calls, fs>>
    /\ UNCHANGED <<parserVars, mapVars, buildVars>>

SortNext ==
    \/ SortFirst
    \/ SortCall
    \/ SortEnd
    \/ MainReturn
    \/ WS_Parse
    \/ WS_Count
    \/ WS_Write
    \/ WS_Fault
    \/ WS_GarbageExit
    \/ WS_GarbageCount
    \/ WS_NullFault
    \/ WS_NullSkip

SpecSort == SortInit /\ [][SortNext]_vars

-----------------------------------------------------------------------------
(* Properties of the parser, checked under Spec *)

\* the steps of the state machine compose to the constructor
StepsAgree ==
    pc = "done" => classifications = ClassificationList(stream, TRUE)

OpenTag == <<"<", "C", "L", "A", "S", "S", ">">>

\* s starts with the characters of t
StartsWith(s, t) == Len(s) >= Len(t) /\ SubSeq(s, 1, Len(t)) = t

\* The number of blocks of a stream made of nothing but well-formed blocks,
\* each "<CLASS>", a body without '<' or '>', and the '<' that ends the body,
\* each block directly after the '<' of the one before; -1 for any other
\* stream.
RECURSIVE BlockCount(_)
BlockCount(s) ==
    IF s = <<>> THEN 0
    ELSE IF ~StartsWith(s, OpenTag) THEN -1
    ELSE LET q == FindDelim(s, Len(OpenTag) + 1, "<")
             g == FindDelim(s, Len(OpenTag) + 1, ">")
         IN  IF q = 0 \/ (g # 0 /\ g < q) THEN -1
             ELSE LET k == BlockCount(SubSeq(s, q + 1, Len(s))) IN
                  IF k < 0 THEN -1 ELSE k + 1

\* C1: a stream of k well-formed <CLASS> blocks, blocks directly after the
\* terminating '<' of the previous body included, parses to exactly k
\* subsamples, and every record of the j-th subsample carries
\* subsampleNumber = j; a stream without blocks parses to the empty list.
C1_BlocksBecomeSubsamples ==
    (pc = "done" /\ BlockCount(stream) >= 0) =>
        /\ Len(classifications) = BlockCount(stream)
        /\ \A j \in DOMAIN classifications :
              \A i \in DOMAIN classifications[j] :
                 classifications[j][i].subsampleNumber = j

\* The records the characters taken from a body stand for: one record for
\* each ',' or '<', labelled with the characters since the delimiter before
\* it, or with "NONE" when there are none.
RECURSIVE Split(_, _, _, _)
Split(cs, tok, recs, n) ==
    IF cs = <<>> THEN recs
    ELSE IF Head(cs) \in {",", "<"}
    THEN Split(Tail(cs), "",
               Append(recs, [subsampleNumber |-> n,
                             patchIndex      |-> Len(recs),
                             classification  |-> IF tok = "" THEN "NONE"
                                                 ELSE tok]), n)
    ELSE Split(Tail(cs), tok \o Head(cs), recs, n)

BodyAB == <<"A", ",", ",", "B", "<">>

\* C2: inside a body each ',' or '<' taken emits exactly one record, labelled
\* with the characters accumulated since the delimiter before it, or "NONE"
\* when there are none; the body ends at the first '<'; the body "A,,B<"
\* yields exactly the records A, NONE, B with patch indices 0, 1, 2.
C2_OneRecordPerDelimiter ==
    /\ pc = "body" =>
          /\ result = Split(consumed, "", <<>>, ssn)
          /\ \A i \in DOMAIN consumed : consumed[i] # "<"
    /\ \A j \in DOMAIN bodies :
          /\ classifications[j] = Split(bodies[j], "", <<>>, j)
          /\ \A i \in 1..(Len(bodies[j]) - 1) : bodies[j][i] # "<"
    /\ (pc = "done" /\ stream = Block(BodyAB)) =>
          classifications =
             << << [subsampleNumber |-> 1, patchIndex |-> 0,
                    classification |-> "A"],
                   [subsampleNumber |-> 1, patchIndex |-> 1,
                    classification |-> "NONE"],
                   [subsampleNumber |-> 1, patchIndex |-> 2,
                    classification |-> "B"] >> >>

\* the body "A,,B<" has been parsed to three records
C2_Witness ==
    /\ pc = "done"
    /\ stream = Block(BodyAB)
    /\ Len(classifications) = 1
    /\ Len(classifications[1]) = 3
    /\ bodies = <<BodyAB>>

\* C3: in every subsample, finished or being scanned, the record at
\* position i (from 0) has patchIndex = i, at every point of the scan.
C3_PatchIndexIsPosition ==
    /\ \A j \in DOMAIN classifications :
          \A i \in DOMAIN classifications[j] :
             classifications[j][i].patchIndex = i - 1
    /\ pc = "body" =>
          /\ \A i \in DOMAIN result : result[i].patchIndex = i - 1
          /\ index = Len(result)

\* a finished subsample of three or more records, one of them from an empty
\* token that is not the last
C3_Witness ==
    /\ pc = "done"
    /\ \E j \in DOMAIN classifications :
          /\ Len(classifications[j]) >= 3
          /\ \E i \in 1..(Len(classifications[j]) - 1) :
                /\ classifications[j][i].classification = "NONE"
                /\ classifications[j][i].patchIndex = i - 1

\* the first line of s, without its newline, when s has a newline
FirstLine(s) == SubSeq(s, 1, FindDelim(s, 1, "\n") - 1)

AfterFirstLine(s) == SubSeq(s, FindDelim(s, 1, "\n") + 1, Len(s))

\* the first line of s ends with a newline and does not begin with <CLASS
\* after left-trimming
JunkFirstLine(s) ==
    /\ FindDelim(s, 1, "\n") # 0
    /\ ~StartsWith(TrimLeft(FirstLine(s)), <<"<", "C", "L", "A", "S", "S">>)

\* C4: a line that does not begin with <CLASS is discarded up to and
\* including its newline and nothing more: the stream parses to what the
\* lines after it parse to.
C4_JunkLineOnly ==
    (pc = "done" /\ JunkFirstLine(stream)) =>
        classifications = ClassificationList(AfterFirstLine(stream), TRUE)

\* C6: a body ended at once by '<', with no character before it, yields no
\* record.
C6_EmptyBodyNoRecord ==
    \A j \in DOMAIN bodies :
       bodies[j] = <<"<">> => classifications[j] = <<>>

\* C7: when the stream ends inside a body, the subsample is added to the
\* list with exactly the records the delimiters already taken produced; the
\* characters accumulated since the last delimiter make no record.
C7_EndOfStreamDropsToken ==
    [][(pc = "body" /\ iter = <<>>) =>
          /\ classifications' = Append(classifications, result)
          /\ pc' = "outer"]_vars

\* a stream has ended inside a body with characters accumulated after the
\* last delimiter, and the subsample is in the list without them
C7_Witness ==
    /\ pc = "done"
    /\ bodies # <<>>
    /\ LET b == bodies[Len(bodies)] IN
          /\ Len(b) >= 3
          /\ b[Len(b)] \notin {",", "<"}
          /\ \E i \in DOMAIN b : b[i] = ","
    /\ Len(classifications) = Len(bodies)
    /\ Len(classifications[Len(bodies)]) >= 1

\* C16: for every finite stream, well-formed or malformed, the construction
\* terminates without crashing and returns a list; every step of the outer
\* scan and of the body scan consumes at least one character or ends at the
\* end of the stream.
C16_ParserTerminates ==
    /\ [][pos' > pos \/ ~good']_vars
    /\ [](pc \in {"outer", "body", "done"})
    /\ [](pc # "done" => ENABLED ParseNext)
    /\ <>(pc = "done")

\* the construction has returned on a stream that ends inside a body, after
\* a token that no delimiter follows
C16_Witness ==
    /\ pc = "done"
    /\ stream = Block(<<"A", ",", "B">>)
    /\ Len(classifications) = 1
    /\ ~good

\* the characters of the first body of a stream that starts with "<CLASS>":
\* up to and including the first '<', or up to the end of the stream
FirstBody(s) ==
    LET q == FindDelim(s, Len(OpenTag) + 1, "<") IN
    SubSeq(s, Len(OpenTag) + 1, IF q # 0 THEN q ELSE Len(s))

\* C17: inside a body every character other than ',' and '<' is appended to
\* the token, whitespace included: each label is exactly the characters
\* between two delimiters.
C17_WhitespaceKept ==
    (StartsWith(stream, OpenTag) /\ Len(classifications) >= 1) =>
        classifications[1] = Split(FirstBody(stream), "", <<>>, 1)

\* The bodies of a stream made of nothing but closed blocks, each "<CLASS>",
\* a body without '<' or '>', and "</CLASS>\n"; ok is FALSE for any other
\* stream.
RECURSIVE ClosedBodies(_)
ClosedBodies(s) ==
    IF s = <<>> THEN [ok |-> TRUE, bodies |-> <<>>]
    ELSE IF ~StartsWith(s, OpenTag) THEN [ok |-> FALSE, bodies |-> <<>>]
    ELSE LET q    == FindDelim(s, Len(OpenTag) + 1, "<")
             g    == FindDelim(s, Len(OpenTag) + 1, ">")
             rest == SubSeq(s, q, Len(s))
         IN  IF q = 0 \/ g < q \/ ~StartsWith(rest, CloseTag)
             THEN [ok |-> FALSE, bodies |-> <<>>]
             ELSE LET r == ClosedBodies(SubSeq(rest, Len(CloseTag) + 1,
                                               Len(rest)))
                  IN  [ok     |-> r.ok,
                       bodies |-> <<SubSeq(s, Len(OpenTag) + 1, q - 1)>>
                                     \o r.bodies]

\* a sequence of characters without its whitespace
RECURSIVE NoSpaces(_)
NoSpaces(s) ==
    IF s = <<>> THEN <<>>
    ELSE IF IsSpace(Head(s)) THEN NoSpaces(Tail(s))
    ELSE <<Head(s)>> \o NoSpaces(Tail(s))

\* C19: in a stream whose blocks are each closed by "</CLASS>" and a
\* newline, every one of the k blocks yields one subsample, in order, and
\* the labels of subsample j are the labels of the body of block j (their
\* whitespace apart): none is lost, none is merged across blocks.
C19_ClosedBlocksAllParsed ==
    (pc = "done" /\ ClosedBodies(stream).ok) =>
        LET b == ClosedBodies(stream).bodies IN
        /\ Len(classifications) = Len(b)
        /\ \A j \in DOMAIN b :
              classifications[j] =
                 Split(NoSpaces(b[j]) \o <<"<">>, "", <<>>, j)

\* a stream of two closed blocks with different bodies has been parsed
C19_Witness ==
    /\ pc = "done"
    /\ ClosedBodies(stream).ok
    /\ Len(ClosedBodies(stream).bodies) = 2
    /\ Len(classifications) = 2
    /\ Len(classifications[1]) = 2
    /\ Len(classifications[2]) = 1
    /\ classifications[1][2].classification = "XY"
    /\ classifications[2][1].classification = "RBC"

-----------------------------------------------------------------------------
(* Properties of the label indices, checked under SpecMap *)

\* the labels named by the claims, with the index each is to map to
Vocabulary ==
    [RBC |-> 0, DRBC |-> 1, RBCC |-> 2, WBC |-> 3, WBCC |-> 4, BACT |-> 5,
     SQEP |-> 6, NSE |-> 7, TREP |-> 8, REEP |-> 9, CAOX |-> 10, URIC |-> 11,
     TPO4 |-> 12, CAPH |-> 13, CYST |-> 14, LEUC |-> 15, AMOR |-> 16,
     CELL |-> 17, GRAN |-> 18, MUCS |-> 19, SPRM |-> 20, BYST |-> 21,
     HYST |-> 22, TRCH |-> 23, BUBB |-> 24]

\* C8: every label maps to one index in 0..25: each of the 25 known labels,
\* matched exactly, to its own index in 0..24, and every other string, "NONE"
\* included, to 25.
C8_MappingTotal ==
    mpc \in {"acl", "mapped"} =>
        /\ pidx \in 0..25
        /\ label \in DOMAIN Vocabulary => pidx = Vocabulary[label]
        /\ label \notin DOMAIN Vocabulary => pidx = 25
        /\ Cardinality({ pclindex(l) : l \in DOMAIN Vocabulary }) = 25

\* a known label and a string that differs from it only by case have been
\* mapped (one per behaviour)
C8_Witness ==
    /\ mpc = "mapped"
    /\ \/ label = "WBCC" /\ pidx = 4
       \/ label = "rbc" /\ pidx = 25

\* C9: the chain applied to the labels of the first list and the chain
\* applied to the labels of the second list return the same index for every
\* label.
C9_ChainsAgree ==
    mpc = "mapped" => pidx = aidx

\* both chains have mapped a known label
C9_Witness ==
    /\ mpc = "mapped"
    /\ label = "TPO4"
    /\ pidx = 12
    /\ aidx = 12

-----------------------------------------------------------------------------
(* Properties of WriteSort, checked under SpecBuild *)

Min(a, b) == IF a <= b THEN a ELSE b

RECURSIVE SumRow(_, _)
SumRow(row, j) == IF j < 0 THEN 0 ELSE row[j] + SumRow(row, j - 1)

RECURSIVE SumRows(_, _)
SumRows(m, i) ==
    IF i < 0 THEN 0 ELSE SumRow(m[i], Dim - 1) + SumRows(m, i - 1)

\* the sum of all cells
MatrixSum(m) == SumRows(m, Dim - 1)

\* both selected subsamples exist
BothInRange == InRange(pclpatchlist) /\ InRange(aclpatchlist)

\* C10: with selected subsamples of lengths a and b, the build counts exactly
\* the first min(a,b) index-aligned pairs and ignores the rest without error:
\* the cells sum to min(a,b), and cell [x][y] is the number of positions
\* below min(a,b) whose pair of labels maps to (x,y).
C10_CountsMinPairs ==
    (wpc \in {"loop", "done", "crashed"} /\ BothInRange) =>
        /\ wpc # "crashed"
        /\ ~undefined
        /\ wpc = "done" =>
              LET a == Sub(pclpatchlist)
                  b == Sub(aclpatchlist)
                  n == Min(Len(a), Len(b))
              IN  /\ count = n
                  /\ MatrixSum(conmatrix) = n
                  /\ \A x \in 0..(Dim - 1), y \in 0..(Dim - 1) :
                        conmatrix[x][y] =
                           Cardinality({ i \in 1..n :
                              /\ pclindex(a[i].classification) = x
                              /\ aclindex(b[i].classification) = y })

\* a build over five patches against three has ended
C10_Witness ==
    /\ wpc = "done"
    /\ BothInRange
    /\ Len(Sub(pclpatchlist)) = 5
    /\ Len(Sub(aclpatchlist)) = 3
    /\ MatrixSum(conmatrix) = 3
    /\ conmatrix[0][0] = 1
    /\ conmatrix[3][7] = 1
    /\ conmatrix[7][3] = 1

\* the matrix of the end-to-end scenario: 1 at [RBC][RBC] and [WBC][WBC]
ScenarioMatrix == [ZeroMatrix EXCEPT ![0][0] = 1, ![3][3] = 1]

\* C5: in the end-to-end scenario each stream parses to 2 subsamples, and
\* the matrix of subsample 1 has 1 at [RBC][RBC] and at [WBC][WBC] and 0 in
\* every other cell.
C5_EndToEnd ==
    (/\ pclstream = ScenarioStream
     /\ aclstream = ScenarioStream
     /\ subsamplenumber = 1
     /\ wpc \in {"loop", "done", "crashed"}) =>
        /\ Len(pclpatchlist) = 2
        /\ Len(aclpatchlist) = 2
        /\ wpc # "crashed"
        /\ wpc = "done" => conmatrix = ScenarioMatrix

-----------------------------------------------------------------------------
(* Properties of the build, continued, checked under SpecBuild *)

\* the sum of the diagonal cells [0][0] .. [i][i]
RECURSIVE DiagSum(_, _)
DiagSum(m, i) == IF i < 0 THEN 0 ELSE m[i][i] + DiagSum(m, i - 1)

\* C11: a build of a list against itself counts only on the diagonal: every
\* off-diagonal cell is 0 and the diagonal sums to the length of the
\* selected subsample.
C11_SelfComparisonDiagonal ==
    (wpc = "done" /\ pclstream = aclstream /\ BothInRange) =>
        /\ \A x \in 0..(Dim - 1), y \in 0..(Dim - 1) :
              x # y => conmatrix[x][y] = 0
        /\ DiagSum(conmatrix, Dim - 1) = Len(Sub(pclpatchlist))

\* the list of five patches has been compared with itself
C11_Witness ==
    /\ wpc = "done"
    /\ pclstream = FiveItems
    /\ aclstream = FiveItems
    /\ subsamplenumber = 1
    /\ conmatrix[0][0] = 1
    /\ conmatrix[3][3] = 1
    /\ conmatrix[7][7] = 1
    /\ conmatrix[24][24] = 1
    /\ conmatrix[25][25] = 1

\* C13: a subsample number that selects no subsample of a list (0, or above
\* the number of its subsamples) is rejected: the run does not go on to
\* count or to write a matrix, and nothing undefined happens.
C13_OutOfRangeRejected ==
    (wpc \in {"done", "crashed"} /\ ~BothInRange) =>
        /\ ~undefined
        /\ written = <<>>
        /\ sink = prior

\* m2 is m with exactly one cell increased by exactly one
OneCellUp(m, m2) ==
    \E x \in 0..(Dim - 1), y \in 0..(Dim - 1) :
        m2 = [m EXCEPT ![x][y] = @ + 1]

\* C14: during one build the matrix starts with every cell zero, no cell is
\* ever negative, and each iteration of the loop increases exactly one cell
\* by exactly one and leaves the others as they are.
C14_MatrixGrowsByOne ==
    /\ []((wpc = "loop" /\ count = 0) => conmatrix = ZeroMatrix)
    /\ [](wpc \in {"loop", "done", "crashed"} =>
            \A x \in 0..(Dim - 1), y \in 0..(Dim - 1) : conmatrix[x][y] >= 0)
    /\ [][wpc = "loop" =>
            \/ count' = count /\ conmatrix' = conmatrix
            \/ count' = count + 1 /\ OneCellUp(conmatrix, conmatrix')]_vars

\* two iterations of the loop have run, on pairs of different cells
C14_Witness ==
    /\ wpc = "loop"
    /\ count = 2
    /\ ~undefined
    /\ conmatrix[0][0] = 1
    /\ conmatrix[3][7] = 1
    /\ MatrixSum(conmatrix) = 2

\* the pieces of s from index p on, each ended by d, and what follows the
\* last d
RECURSIVE SplitAt(_, _, _, _)
SplitAt(s, p, d, acc) ==
    LET q == FindDelim(s, p, d) IN
    IF q = 0 THEN [fields |-> acc, rest |-> SubSeq(s, p, Len(s))]
    ELSE SplitAt(s, q + 1, d, Append(acc, SubSeq(s, p, q - 1)))

DigitValue(c) ==
    CASE c = "0" -> 0 [] c = "1" -> 1 [] c = "2" -> 2 [] c = "3" -> 3
      [] c = "4" -> 4 [] c = "5" -> 5 [] c = "6" -> 6 [] c = "7" -> 7
      [] c = "8" -> 8 [] c = "9" -> 9 [] OTHER -> -1

\* the value of a text that is a decimal number without sign, -1 otherwise
RECURSIVE ReadNumber(_, _)
ReadNumber(text, acc) ==
    IF text = <<>> THEN acc
    ELSE IF DigitValue(Head(text)) < 0 THEN -1
    ELSE ReadNumber(Tail(text), 10 * acc + DigitValue(Head(text)))

IsNumber(text) == text # <<>> /\ ReadNumber(text, 0) >= 0

\* the lines the run added to the file, and the fields of a line
AddedLines == SplitAt(sink, Len(prior) + 1, "\n", <<>>)

Fields(line) == SplitAt(line, 1, "\t", <<>>)

\* the numbers of a line of fields each ended by a tab; <<>> for a line that
\* is anything else
NumberRow(f) ==
    IF f.rest # <<>> \/ \E c \in DOMAIN f.fields : ~IsNumber(f.fields[c])
    THEN <<>>
    ELSE [c \in DOMAIN f.fields |-> ReadNumber(f.fields[c], 0)]

\* the numbers of some lines of text
TextMatrix(lines) == [r \in DOMAIN lines |-> NumberRow(Fields(lines[r]))]

\* the number of counted positions whose pcl label maps to r and whose acl
\* label maps to c
PairCount(r, c) ==
    LET a == Sub(pclpatchlist)
        b == Sub(aclpatchlist)
    IN  Cardinality({ i \in 1..Min(Len(a), Len(b)) :
                        /\ pclindex(a[i].classification) = r
                        /\ aclindex(b[i].classification) = c })

\* C18: a run writes exactly one matrix, as 26 lines of 26 integers with
\* nothing before, between or after them; the integer in line r, field c is
\* matrix[r][c], the count of the pairs whose label from the first (.pcl)
\* list has index r and whose label from the second (.acl) list has index c.
C18_TextIsMatrix ==
    (wpc = "done" /\ BothInRange) =>
        /\ AddedLines.rest = <<>>
        /\ TextMatrix(AddedLines.fields) =
              [r \in 1..Dim |-> [c \in 1..Dim |-> PairCount(r - 1, c - 1)]]
        /\ TextMatrix(AddedLines.fields) =
              [r \in 1..Dim |-> [c \in 1..Dim |-> conmatrix[r - 1][c - 1]]]

\* the matrix of five patches against three has been written: WBC against
\* NSE is the 1 in line 4, field 8, and line 8, field 8 holds 0
C18_Witness ==
    /\ wpc = "done"
    /\ pclstream = FiveItems
    /\ aclstream = ThreeItems
    /\ subsamplenumber = 1
    /\ Len(AddedLines.fields) = Dim
    /\ Fields(AddedLines.fields[4]).fields[8] = <<"1">>
    /\ Fields(AddedLines.fields[8]).fields[8] = <<"0">>
    /\ Fields(AddedLines.fields[8]).fields[4] = <<"1">>

-----------------------------------------------------------------------------
(* Properties of a batch, checked under SpecSort *)

\* the lines a step adds to the file
StepLines == SplitAt(sink', Len(sink) + 1, "\n", <<>>)

\* with a file that opens, every call that has returned wrote its matrix
EveryRunWrote ==
    (sinkopen /\ wpc \in {"idle", "done"}) => Len(written) = Len(calls)

\* C12: writing only appends.  A step that changes the file keeps every
\* character it held, in place, and adds after them the 26 complete lines
\* of the matrix of the run and nothing else, so that the file holds the
\* runs in the order of the calls; and with a file that opens every call
\* that has returned wrote its matrix.
C12_SinkOnlyGrows ==
    [][/\ sink' # sink =>
            /\ StartsWith(sink', sink)
            /\ \A added \in {StepLines} :
                  /\ added.rest = <<>>
                  /\ TextMatrix(added.fields) =
                        [r \in 1..Dim |->
                            [c \in 1..Dim |-> conmatrix[r - 1][c - 1]]]
            /\ written' = Append(written, conmatrix)
       /\ EveryRunWrote
       /\ EveryRunWrote']_vars

\* a batch of two runs has ended on a file that held a line before: two
\* different matrices follow that line
C12_Witness ==
    /\ spc = "done"
    /\ ~undefined
    /\ prior = <<"o", "l", "d", "\n">>
    /\ calls = << <<"a">>, <<"b">> >>
    /\ Len(written) = 2
    /\ written[1][3][7] = 1
    /\ written[2][3][7] = 0
    /\ written[2][0][0] = 1
    /\ Len(sink) > Len(prior) + 2 * Dim * Dim

\* C15: when the .pcl file, the .acl file or ConfusionMatrix.txt cannot be
\* opened, the run ends with an I/O error of its own: it does not crash,
\* nothing undefined happens and nothing is written.
C15_OpenFailureSurfaced ==
    (/\ Len(calls) = 1
     /\ wpc \in {"done", "crashed"}
     /\ ~(pclopen /\ aclopen /\ sinkopen)) =>
        /\ wpc # "crashed"
        /\ ~undefined
        /\ sink = prior

\* the names a runfile list holds after its first line; the newline that
\* ends the last line starts no further name
ListedNames ==
    LET sp    == SplitAt(listfile, 1, "\n", <<>>)
        lines == IF sp.rest = <<>> THEN sp.fields
                 ELSE Append(sp.fields, sp.rest)
    IN  IF lines = <<>> THEN <<>> ELSE Tail(lines)

\* C20: Sort calls WriteSort once for each name listed after the first line,
\* in order, and for nothing else: no call is made with an empty name when
\* the list ends with a newline, and when Sort returns every name was used.
C20_OneCallPerName ==
    /\ Len(calls) <= Len(ListedNames)
    /\ calls = SubSeq(ListedNames, 1, Len(calls))
    /\ spc = "done" => calls = ListedNames

-----------------------------------------------------------------------------
(* Properties of the batch as a whole, checked under SpecSort *)

\* the calls made so far for names of the list, by their position
ListedCalls == 1..Min(Len(calls), Len(ListedNames))

\* a list selects a subsample
Selects(list) == subsamplenumber \in 1..Len(list)

\* call k is a run that fails: one of its files cannot be opened, or the
\* subsample it is to compare does not exist in one of its lists
RunFails(k) ==
    LET pcl == Path(inputdirectory, calls[k], ".pcl")
        acl == Path(inputdirectory, calls[k], ".acl")
    IN  \/ ~sinkopen
        \/ ~FileOpen(pcl)
        \/ ~FileOpen(acl)
        \/ ~Selects(ClassificationList(FileText(pcl), TRUE))
        \/ ~Selects(ClassificationList(FileText(acl), TRUE))

\* the lines the program prints whether or not a run fails
RoutineLines ==
    {ReadyingLine, InvalidLine}
        \cup { ProcessingLine(calls[k]) : k \in DOMAIN calls }

\* some printed line reports a failure
FailureLogged == \E i \in DOMAIN log : log[i] \notin RoutineLines

\* WriteSort has been called for every listed name, in order
BatchCompleted ==
    /\ Len(calls) >= Len(ListedNames)
    /\ SubSeq(calls, 1, Len(ListedNames)) = ListedNames

\* C21: a failure while processing one run does not stop the batch: the run
\* of a listed name that fails does not end the process, and when the
\* program ends after such a run the failure has been logged and WriteSort
\* has been called for every name of the list.
C21_BatchSurvivesFailure ==
    /\ (wpc = "crashed" /\ Len(calls) \in ListedCalls) =>
            ~RunFails(Len(calls))
    /\ (spc = "exit" /\ \E k \in ListedCalls : RunFails(k)) =>
            (BatchCompleted /\ FailureLogged)

=============================================================================
